---- MODULE Spec2Model ----
(***************************************************************************)
(* Metadata index of the 01memories photo frame (repository/index.py).     *)
(*                                                                         *)
(* The index is an SQLite database with the tables "files" (MetaData),     *)
(* "tags" (MetaDataTag) and "tag_file" (Link).  Index.build reconciles one *)
(* repository with the index; it runs in its own session and may run in a  *)
(* background thread while iterators read the index.  The model keeps the  *)
(* committed content of the tables, the uncommitted part of every build    *)
(* session and the position of every build pass.                           *)
(***************************************************************************)
EXTENDS Integers, Sequences, FiniteSets, TLC

\* ------------------------------------------------------------------ bounds
MaxTime   == 1      \* number of changes of the backing stores (each at a later time)
MaxPasses == 2      \* number of build passes started in one behaviour
MaxRows   == 3      \* number of entries of an index that is queried
MaxDim    == 3      \* largest width and height of an image or video
MaxShown  == 5      \* number of references of the iterator of a slideshow
MaxLen    == 37     \* longest identifier a repository is created with
MaxRegistered == 2  \* number of repositories created in one behaviour

Repos    == {"A", "B"}          \* repository uuids
FileIds  == {"f1", "f2"}        \* file uuids, reused across repositories
\* The files a repository may hold: A holds up to two, B up to one.
FilesOf(r) == IF r = "A" THEN {"f1", "f2"} ELSE {"f1"}
Workers  == {"w1", "w2"}        \* threads calling Index.build, one session each
Seeds    == {1, 2}               \* values random.random() returns
\* Keyword lists a file may carry (IPTC keywords, a list: names may repeat).
TagLists == { <<>>, <<"x">>, <<"z", "z">> }

None == "none"

VARIABLES
    now,        \* the clock (datetime.today())
    disk,       \* disk[r][f]: the file f of the backing store of repository r
    files,      \* committed rows of table "files"
    tags,       \* committed rows of table "tags"
    lock,       \* the session holding SQLite's write lock, or None
    repo,       \* repo[w]: repository of the pass of worker w
    mode,       \* mode[w]: "update" or "rebuild"
    pc,         \* pc[w]: position of worker w in Index.build
    visited,    \* visited[w]: files the enumeration has yielded in this pass
    cur,        \* cur[w]: the MetaData object built for the current file
    marks,      \* marks[w]: ids of rows set verified in w's open transaction
    poisoned,   \* poisoned[w]: w's session needs a rollback after a failed flush
    pre,        \* pre[w]: the tables when the pass started (history)
    extracted,  \* extracted[w]: files whose metadata the pass extracted (history)
    failed,     \* failed[w]: files whose processing raised in this pass (history)
    passes,     \* number of passes started
    last,       \* repository of the update pass just completed, None once
                \* anything has changed since (history)
    again,      \* again[w]: the pass of w repeats the pass last (history)
    iter,       \* the selective iterator of the reading thread
    store,      \* the Index object: "none" before Index() is called, "open"
                \* with its engine and sessions, "unopened" without them
    registry,   \* Repository._repositories: the identifiers registered (an
                \* identifier is modelled by its length), with the length
                \* and the outcome of the last call of the constructor
    app         \* the application (show/app.py): its root slideshow, its
                \* play state, the play state of every slideshow, and the
                \* last call of the slideshow setter (history)

vars == << now, disk, files, tags, lock, repo, mode, pc, visited, cur, marks,
           poisoned, pre, extracted, failed, passes, last, again, iter, store, app, registry >>

buildVars == << repo, mode, pc, visited, cur, marks, poisoned, pre, extracted,
                failed, passes, again >>

\* ------------------------------------------------------------------ helpers
Absent == [present |-> FALSE, last_modified |-> 0, tags |-> <<>>]

Max(S) == IF S = {} THEN 0 ELSE CHOOSE m \in S : \A n \in S : n <= m

Range(s) == { s[i] : i \in 1..Len(s) }

\* Next value of an INTEGER PRIMARY KEY column of SQLite: largest rowid + 1.
NextId(rows) == Max({ r.id : r \in rows }) + 1

\* session.query(MetaData).filter(rep_uuid == r).filter(file_uuid == f)
RowsOf(rows, r, f) == { x \in rows : x.rep_uuid = r /\ x.file_uuid = f }

\* .first() of a query without ORDER BY: SQLite scans the table in rowid order.
\* No row (None of Python) is the row with id 0.
NoRow == [id |-> 0]

First(rows) ==
    IF rows = {} THEN NoRow
    ELSE CHOOSE x \in rows : \A y \in rows : x.id <= y.id

\* The rows as the session of w sees them: the committed rows with the
\* UPDATEs of its open transaction applied.
View(w) == { IF x.id \in marks[w] THEN [x EXCEPT !.verified = TRUE] ELSE x
             : x \in files }

\* The write lock is free for w: no other session has an open write transaction.
CanWrite(w) == lock \in {None, w}

\* tag.files.count() == 0
Unused(t, rows) == \A x \in rows : t.id \notin x.tags

\* The shape of the state while the index is built (tag names are strings
\* there, sequences of code points where the index is queried).
TypeOK ==
    /\ now \in 0..MaxTime
    /\ \A x \in files : x.rep_uuid \in Repos /\ x.file_uuid \in FileIds
                        /\ x.verified \in BOOLEAN /\ x.random_number \in Seeds
    /\ \A t \in tags : t.name \in {"x", "y", "z"}
    /\ lock \in Workers \cup {None}
    /\ \A w \in Workers : pc[w] \in {"idle", "purge", "enum", "commit",
                                     "closing", "raised_enum", "raised_sweep"}

\* No call of __next__ or previous yet.  pure: the call was made when every
\* call before it was a call of __next__ that returned a file (history).
NoCall ==
    [op |-> "none", n |-> 0, kind |-> "none", index |-> 0, pure |-> FALSE,
     restarts |-> 0]

\* Index.iterator() without arguments: the criteria dictionary is empty.
\* keys: the keys of the dictionary; scalar: the keys whose value is a single
\* value and not a list or set; the other fields: the values of the keys it
\* holds (the single value of a scalar key as the set that holds it).
NoCriteria ==
    [keys |-> {}, scalar |-> {}, repositories |-> {}, types |-> {},
     orientation |-> None,
     tags |-> {}, excluded_tags |-> {}, most_recent |-> 0, order |-> None,
     direction |-> None, smart_limit |-> 0, smart_time |-> 0]

\* No iterator has been constructed.  error: the exception the last call
\* of the constructor raised; queried: that call ran a query.
NoIterator ==
    [live |-> FALSE, result |-> <<>>, position |-> 0, criteria |-> NoCriteria,
     out |-> NoCall, fwd |-> <<>>, pure |-> TRUE, anchor |-> 0, rnd |-> 0,
     error |-> None, queried |-> FALSE]

\* ------------------------------------------------------------------ Init
\* The keywords of the files when the program starts.
Keywords0(r, f) ==
    IF r = "A" THEN (IF f = "f1" THEN <<"x">> ELSE <<>>) ELSE <<"x", "y">>

Disk0 ==
    [r \in Repos |-> [f \in FileIds |->
        IF f \in FilesOf(r)
        THEN [present |-> TRUE, last_modified |-> 0, tags |-> Keywords0(r, f)]
        ELSE Absent]]

\* The index a completed build of every repository leaves for Disk0.
Tags0 == { [id |-> 1, name |-> "x"], [id |-> 2, name |-> "y"] }

TagIds0(tl) == { t.id : t \in { u \in Tags0 : u.name \in Range(tl) } }

Files0 ==
    UNION { { [id            |-> (IF r = "A" THEN 0 ELSE 2) + (IF f = "f1" THEN 1 ELSE 2),
               rep_uuid      |-> r,
               file_uuid     |-> f,
               name          |-> f,
               type          |-> "image",
               orientation   |-> "landscape",
               creation_date |-> 0,
               last_modified |-> 0,
               last_updated  |-> 0,
               random_number |-> 1,
               verified      |-> TRUE,
               tags          |-> TagIds0(Keywords0(r, f))] : f \in FilesOf(r) }
            : r \in Repos }

\* App.build, show/app.py lines 209-232: the application is stopped, the
\* first of its slideshows is the root widget; a slideshow is constructed
\* stopped (slideshow.py line 50).
App0 ==
    [root |-> "s1", play_state |-> "stopped",
     shows |-> [n \in {"s1", "s2"} |-> "stopped"], call |-> None]

\* The program starts with the index database it finds: a new, empty one or
\* the one earlier runs have built.
Started ==
    /\ now = 0
    /\ disk = Disk0
    /\ \/ files = {} /\ tags = {}
       \/ files = Files0 /\ tags = Tags0
    /\ lock = None
    /\ repo = [w \in Workers |-> None]
    /\ mode = [w \in Workers |-> None]
    /\ pc = [w \in Workers |-> "idle"]
    /\ visited = [w \in Workers |-> {}]
    /\ cur = [w \in Workers |-> None]
    /\ marks = [w \in Workers |-> {}]
    /\ poisoned = [w \in Workers |-> FALSE]
    /\ pre = [w \in Workers |-> None]
    /\ extracted = [w \in Workers |-> {}]
    /\ failed = [w \in Workers |-> {}]
    /\ passes = 0
    /\ last = None
    /\ again = [w \in Workers |-> FALSE]
    /\ iter = NoIterator
    /\ app = App0
    /\ registry = [uuids |-> {}, uuid |-> 0, outcome |-> "none"]

\* The index database has been opened (Index.__init__, lines 180-188).
Init == Started /\ store = "open"

\* ------------------------------------------------------------------ disk
\* A file is created or modified in the backing store: its modification
\* time is the (advanced) clock, its keywords are any list.
Touch(r, f, tl) ==
    /\ now < MaxTime
    /\ now' = now + 1
    /\ disk' = [disk EXCEPT ![r][f] =
                  [present |-> TRUE, last_modified |-> now + 1, tags |-> tl]]
    /\ last' = None
    /\ UNCHANGED << files, tags, lock, buildVars, iter, store, app, registry >>

\* A file is removed from the backing store.
Remove(r, f) ==
    /\ now < MaxTime
    /\ disk[r][f].present
    /\ now' = now + 1
    /\ disk' = [disk EXCEPT ![r][f] = Absent]
    /\ last' = None
    /\ UNCHANGED << files, tags, lock, buildVars, iter, store, app, registry >>

\* ------------------------------------------------------------------ build
\* A commit makes the UPDATEs of the open transaction of w permanent.
Committed(w) == View(w)

\* The history kept for one pass is dropped when build returns.
Forget(w) ==
    /\ repo' = [repo EXCEPT ![w] = None]
    /\ mode' = [mode EXCEPT ![w] = None]
    /\ visited' = [visited EXCEPT ![w] = {}]
    /\ pre' = [pre EXCEPT ![w] = None]
    /\ extracted' = [extracted EXCEPT ![w] = {}]
    /\ failed' = [failed EXCEPT ![w] = {}]
    /\ again' = [again EXCEPT ![w] = FALSE]

Begin(w, r, m) ==
    /\ pc[w] = "idle"
    /\ passes < MaxPasses
    /\ \A v \in Workers : pc[v] /= "idle" => repo[v] /= r
    /\ passes' = passes + 1
    /\ repo' = [repo EXCEPT ![w] = r]
    /\ mode' = [mode EXCEPT ![w] = m]
    /\ pre' = [pre EXCEPT ![w] = [files |-> files, tags |-> tags]]
    /\ visited' = [visited EXCEPT ![w] = {}]
    /\ extracted' = [extracted EXCEPT ![w] = {}]
    /\ failed' = [failed EXCEPT ![w] = {}]
    /\ again' = [again EXCEPT ![w] = (m = "update" /\ last = r)]
    /\ last' = None

\* build(rep, rebuild=False), lines 228-236: reset the verified flags of the
\* repository and commit.
StartUpdate(w, r) ==
    /\ Begin(w, r, "update")
    /\ ~poisoned[w]
    /\ CanWrite(w)
    /\ files' = { IF x.rep_uuid = r THEN [x EXCEPT !.verified = FALSE] ELSE x
                  : x \in Committed(w) }
    /\ marks' = [marks EXCEPT ![w] = {}]
    /\ lock' = None
    /\ pc' = [pc EXCEPT ![w] = "enum"]
    /\ UNCHANGED << now, disk, tags, cur, poisoned, iter, store, app, registry >>

\* build(rep, rebuild=True), lines 211-217: delete the rows of the repository
\* and commit.
StartRebuild(w, r) ==
    /\ Begin(w, r, "rebuild")
    /\ ~poisoned[w]
    /\ CanWrite(w)
    /\ files' = { x \in Committed(w) : x.rep_uuid /= r }
    /\ marks' = [marks EXCEPT ![w] = {}]
    /\ lock' = None
    /\ pc' = [pc EXCEPT ![w] = "purge"]
    /\ UNCHANGED << now, disk, tags, cur, poisoned, iter, store, app, registry >>

\* lines 218-224: delete the tags no file is linked to and commit.
PurgeTags(w) ==
    /\ pc[w] = "purge"
    /\ (\E t \in tags : Unused(t, files)) => CanWrite(w)
    /\ tags' = { t \in tags : ~Unused(t, files) }
    /\ pc' = [pc EXCEPT ![w] = "enum"]
    /\ UNCHANGED << now, disk, files, lock, repo, mode, visited, cur, marks,
                    poisoned, pre, extracted, failed, passes, last, again, iter, store, app, registry >>

\* The first statement of a session that needs a rollback raises; both start
\* blocks catch and log the exception (lines 225-226, 235-236).
StartPoisoned(w, r, m) ==
    /\ Begin(w, r, m)
    /\ poisoned[w]
    /\ pc' = [pc EXCEPT ![w] = "enum"]
    /\ UNCHANGED << now, disk, files, tags, lock, cur, marks, poisoned, iter, store, app, registry >>

\* The enumeration yields the file f (rep.iterator, line 239).
Yields(w, f) ==
    /\ pc[w] = "enum"
    /\ f \in FileIds \ visited[w]
    /\ disk[repo[w]][f].present
    /\ visited' = [visited EXCEPT ![w] = @ \cup {f}]

\* line 243: the metadata entry of the file, as the session sees it.
Lookup(w, f) == First(RowsOf(View(w), repo[w], f))

\* Variant of Outdated: an entry as old as the file counts as outdated.
OutdatedOrEqual(mdata, file) ==
    IF mdata.id = 0 THEN TRUE ELSE mdata.last_updated <= file.last_modified

\* line 244: the file is not in the index yet or its entry is outdated.
Outdated(mdata, file) ==
    IF mdata.id = 0 THEN TRUE ELSE mdata.last_updated < file.last_modified

\* lines 249-258: one tag object per keyword of the file: the id of the row
\* the query finds, or 0 for a new MetaDataTag object.
TagObjects(tl) ==
    [i \in 1..Len(tl) |->
        IF \E t \in tags : t.name = tl[i]
        THEN (CHOOSE t \in tags : t.name = tl[i]).id
        ELSE 0]

\* lines 244-282: the entry is missing or outdated: extract the metadata
\* and build the new MetaData object.
ExamineExtract(w, f) ==
    /\ Yields(w, f)
    /\ ~poisoned[w]
    /\ Outdated(Lookup(w, f), disk[repo[w]][f])
    /\ cur' = [cur EXCEPT ![w] =
                 [file_uuid     |-> f,
                  last_modified |-> disk[repo[w]][f].last_modified,
                  last_updated  |-> now,
                  names         |-> disk[repo[w]][f].tags,
                  objects       |-> TagObjects(disk[repo[w]][f].tags)]]
    /\ extracted' = [extracted EXCEPT ![w] = @ \cup {f}]
    /\ pc' = [pc EXCEPT ![w] = "commit"]
    /\ UNCHANGED << now, disk, files, tags, lock, repo, mode, marks, poisoned,
                    pre, failed, passes, last, again, iter, store, app, registry >>

\* line 246 raises (the file cannot be read): caught and logged, line 293.
ExamineFail(w, f) ==
    /\ Yields(w, f)
    /\ ~poisoned[w]
    /\ Outdated(Lookup(w, f), disk[repo[w]][f])
    /\ failed' = [failed EXCEPT ![w] = @ \cup {f}]
    /\ UNCHANGED << now, disk, files, tags, lock, repo, mode, pc, cur, marks,
                    poisoned, pre, extracted, passes, last, again, iter, store, app, registry >>

\* Variant of ExamineSkip: the entry that is up to date is not marked.
ExamineSkipUnmarked(w, f) ==
    /\ Yields(w, f)
    /\ ~poisoned[w]
    /\ ~Outdated(Lookup(w, f), disk[repo[w]][f])
    /\ UNCHANGED << now, disk, files, tags, lock, repo, mode, pc, cur, marks,
                    poisoned, pre, extracted, failed, passes, last, again,
                    iter, store, app, registry >>

\* lines 286-292: the entry is up to date: mark it verified, without commit.
ExamineSkip(w, f) ==
    /\ Yields(w, f)
    /\ ~poisoned[w]
    /\ ~Outdated(Lookup(w, f), disk[repo[w]][f])
    /\ CanWrite(w)
    /\ marks' = [marks EXCEPT ![w] =
                   @ \cup { x.id : x \in RowsOf(files, repo[w], f) }]
    /\ lock' = w
    /\ UNCHANGED << now, disk, files, tags, repo, mode, pc, cur, poisoned,
                    pre, extracted, failed, passes, last, again, iter, store, app, registry >>

\* line 243 raises in a session that needs a rollback: caught, line 293.
ExaminePoisoned(w, f) ==
    /\ Yields(w, f)
    /\ poisoned[w]
    /\ UNCHANGED << now, disk, files, tags, lock, repo, mode, pc, cur, marks,
                    poisoned, pre, extracted, failed, passes, last, again, iter, store, app, registry >>

\* The positions of the tag list that hold a new MetaDataTag object.
NewPos(c) == { i \in DOMAIN c.objects : c.objects[i] = 0 }

\* The id the flush gives the tag object at position i.
TagId(c, i) ==
    IF c.objects[i] /= 0 THEN c.objects[i]
    ELSE NextId(tags) + Cardinality({ j \in NewPos(c) : j < i })

\* Variant of FlushOk: table tags without the UNIQUE constraint on name.
FlushWithoutUnique(c) ==
    \A i \in DOMAIN c.objects \ NewPos(c) : \E t \in tags : t.id = c.objects[i]

\* The flush of session.commit() (line 285) succeeds: the INSERTs respect
\* the UNIQUE constraint on tags.name (line 127) and the foreign key of
\* tag_file.tag_id (line 134).
FlushOk(c) ==
    /\ \A i, j \in NewPos(c) : i /= j => c.names[i] /= c.names[j]
    /\ \A i \in NewPos(c) : \A t \in tags : t.name /= c.names[i]
    /\ \A i \in DOMAIN c.objects \ NewPos(c) :
           \E t \in tags : t.id = c.objects[i]

\* lines 265-282: the MetaData object, with a new random number.  The files
\* of the backing stores are images without EXIF data: the name is the file
\* uuid and the creation date the time of the last change
\* (local/file.py, lines 47-53).
NewRow(w, c, seed) ==
    [id            |-> NextId(files),
     rep_uuid      |-> repo[w],
     file_uuid     |-> c.file_uuid,
     name          |-> c.file_uuid,
     type          |-> "image",
     orientation   |-> "landscape",
     creation_date |-> c.last_modified,
     last_modified |-> c.last_modified,
     last_updated  |-> c.last_updated,
     random_number |-> seed,
     verified      |-> TRUE,
     tags          |-> { TagId(c, i) : i \in DOMAIN c.objects }]

\* lines 283-285: session.add(mdata); session.commit().
CommitAdd(w, seed) ==
    /\ pc[w] = "commit"
    /\ CanWrite(w)
    /\ FlushOk(cur[w])
    /\ files' = Committed(w) \cup { NewRow(w, cur[w], seed) }
    /\ tags' = tags \cup { [id |-> TagId(cur[w], i), name |-> cur[w].names[i]]
                           : i \in NewPos(cur[w]) }
    /\ marks' = [marks EXCEPT ![w] = {}]
    /\ lock' = None
    /\ cur' = [cur EXCEPT ![w] = None]
    /\ pc' = [pc EXCEPT ![w] = "enum"]
    /\ UNCHANGED << now, disk, repo, mode, visited, poisoned, pre, extracted,
                    failed, passes, last, again, iter, store, app, registry >>

\* The flush raises IntegrityError: the transaction is rolled back, the
\* exception is caught and logged (line 293) and the session is left without
\* the rollback() it needs before its next statement.
CommitFail(w) ==
    /\ pc[w] = "commit"
    /\ CanWrite(w)
    /\ ~FlushOk(cur[w])
    /\ marks' = [marks EXCEPT ![w] = {}]
    /\ lock' = None
    /\ poisoned' = [poisoned EXCEPT ![w] = TRUE]
    /\ failed' = [failed EXCEPT ![w] = @ \cup {cur[w].file_uuid}]
    /\ cur' = [cur EXCEPT ![w] = None]
    /\ pc' = [pc EXCEPT ![w] = "enum"]
    /\ UNCHANGED << now, disk, files, tags, repo, mode, visited, pre,
                    extracted, passes, last, again, iter, store, app, registry >>

\* Variant of Exhausted: the loop may end before the enumeration does.
ExhaustedOrNot(w) == w \in Workers

\* The enumeration is exhausted (StopIteration ends the for loop).
Exhausted(w) ==
    \A f \in FileIds \ visited[w] : ~disk[repo[w]][f].present

\* The rows the final DELETE removes, line 297.
Unverified(rows, r) == { x \in rows : x.verified = FALSE }

\* lines 296-300: delete the entries not verified, commit.
Sweep(w) ==
    /\ pc[w] = "enum"
    /\ Exhausted(w)
    /\ ~poisoned[w]
    /\ CanWrite(w)
    /\ files' = Committed(w) \ Unverified(Committed(w), repo[w])
    /\ marks' = [marks EXCEPT ![w] = {}]
    /\ lock' = None
    /\ pc' = [pc EXCEPT ![w] = "closing"]
    /\ last' = IF /\ mode[w] = "update"
                  /\ failed[w] = {}
                  /\ \A v \in Workers \ {w} : pc[v] = "idle"
               THEN repo[w] ELSE None
    /\ UNCHANGED << now, disk, tags, repo, mode, visited, cur, poisoned, pre,
                    extracted, failed, passes, again, iter, store, app, registry >>

\* line 298 raises in a session that needs a rollback: nothing catches it.
SweepRaises(w) ==
    /\ pc[w] = "enum"
    /\ Exhausted(w)
    /\ poisoned[w]
    /\ pc' = [pc EXCEPT ![w] = "raised_sweep"]
    /\ UNCHANGED << now, disk, files, tags, lock, repo, mode, visited, cur,
                    marks, poisoned, pre, extracted, failed, passes, last, again, iter, store, app, registry >>

\* The enumeration raises IoError (line 239, outside the try block): build
\* ends with the exception; its transaction stays open.
EnumFail(w) ==
    /\ pc[w] = "enum"
    /\ pc' = [pc EXCEPT ![w] = "raised_enum"]
    /\ UNCHANGED << now, disk, files, tags, lock, repo, mode, visited, cur,
                    marks, poisoned, pre, extracted, failed, passes, last, again, iter, store, app, registry >>

\* line 301: session.close(), build returns.
Close(w) ==
    /\ pc[w] = "closing"
    /\ pc' = [pc EXCEPT ![w] = "idle"]
    /\ Forget(w)
    /\ UNCHANGED << now, disk, files, tags, lock, cur, marks, poisoned,
                    passes, last, iter, store, app, registry >>

\* Variant of Raise: the entries not verified are deleted on the way out.
RaiseAfterSweep(w) ==
    /\ pc[w] \in {"raised_enum", "raised_sweep"}
    /\ pc' = [pc EXCEPT ![w] = "idle"]
    /\ files' = Committed(w) \ Unverified(Committed(w), repo[w])
    /\ Forget(w)
    /\ UNCHANGED << now, disk, tags, lock, cur, marks, poisoned,
                    passes, last, iter, store, app, registry >>

\* The exception reaches the caller of build.
Raise(w) ==
    /\ pc[w] \in {"raised_enum", "raised_sweep"}
    /\ pc' = [pc EXCEPT ![w] = "idle"]
    /\ Forget(w)
    /\ UNCHANGED << now, disk, files, tags, lock, cur, marks, poisoned,
                    passes, last, iter, store, app, registry >>

\* --------------------------------------------------------------- iterator
\* The rows in the order the query returns them without ORDER BY (by rowid).
RECURSIVE InRowOrder(_)
InRowOrder(rows) ==
    IF rows = {} THEN <<>>
    ELSE LET x == CHOOSE y \in rows : \A z \in rows : y.id <= z.id
         IN  << [rep_uuid |-> x.rep_uuid, file_uuid |-> x.file_uuid,
                     creation_date |-> x.creation_date] >>
             \o InRowOrder(rows \ {x})

\* IndexIterator.__init__ without criteria, lines 396-469: query.all().
Query(rows) == InRowOrder(rows)

\* Names are sequences of code points.  SQLite's lower() and upper(), which
\* func.lower (lines 423, 429) and func.upper (line 453) compile to, convert
\* the ASCII letters only; Python's str.lower (lines 423, 429) converts every
\* letter (here: of Latin-1).
LowerAscii(c) == IF c \in 65..90 THEN c + 32 ELSE c

UpperAscii(c) == IF c \in 97..122 THEN c - 32 ELSE c

LowerUnicode(c) ==
    IF c \in 65..90 \/ (c \in 192..222 /\ c /= 215) THEN c + 32 ELSE c

SqlLower(name) == [i \in DOMAIN name |-> LowerAscii(name[i])]

SqlUpper(name) == [i \in DOMAIN name |-> UpperAscii(name[i])]

PyLower(name) == [i \in DOMAIN name |-> LowerUnicode(name[i])]

\* a sorts before b or equals b (the BINARY collation of SQLite).
RECURSIVE LexLeq(_, _)
LexLeq(a, b) ==
    IF a = <<>> THEN TRUE
    ELSE IF b = <<>> THEN FALSE
    ELSE IF Head(a) /= Head(b) THEN Head(a) < Head(b)
    ELSE LexLeq(Tail(a), Tail(b))

\* The names of the tags linked to the entry x (relationship, line 110).
TagNames(x) == { t.name : t \in { u \in tags : u.id \in x.tags } }

\* lines 420-423: MetaData.tags.any(lower(name) IN (lower-cased values)).
AnyTag(x, values) ==
    \E name \in TagNames(x) : SqlLower(name) \in { PyLower(v) : v \in values }

\* lines 399-429: the entry passes the filter of every key of the criteria.
Matches(x, crit) ==
    /\ "repositories" \in crit.keys => x.rep_uuid \in crit.repositories
    /\ "types" \in crit.keys => x.type \in crit.types
    /\ "orientation" \in crit.keys => x.orientation = crit.orientation
    /\ "tags" \in crit.keys => AnyTag(x, crit.tags)
    /\ "excluded_tags" \in crit.keys =>
           (~AnyTag(x, crit.excluded_tags) \/ x.tags = {})

Filtered(rows, crit) == { x \in rows : Matches(x, crit) }

\* line 437: the first n entries by creation date, latest first.
Latest(F, n) ==
    IF Cardinality(F) <= n THEN F
    ELSE CHOOSE T \in SUBSET F :
             /\ Cardinality(T) = n
             /\ \A x \in T : \A y \in F \ T :
                    x.creation_date >= y.creation_date

\* Recent without the date filter of line 440: the limited query itself.
RecentLimited(F, crit) ==
    IF "most_recent" \in crit.keys /\ F /= {}
    THEN Latest(F, crit.most_recent)
    ELSE F

\* lines 435-440: keep the entries not older than the last of Latest.
Recent(F, crit) ==
    IF "most_recent" \in crit.keys /\ F /= {}
    THEN LET T == Latest(F, crit.most_recent)
             date_limit == CHOOSE d \in { x.creation_date : x \in T } :
                               \A x \in T : d <= x.creation_date
         IN  { x \in F : x.creation_date >= date_limit }
    ELSE F

\* The sequences that list every entry of F once.
Perms(F) ==
    { s \in [1..Cardinality(F) -> F] :
          \A i, j \in 1..Cardinality(F) : i /= j => s[i] /= s[j] }

\* The references of a sequence of entries, line 396.
Refs(s) ==
    [i \in DOMAIN s |-> [rep_uuid |-> s[i].rep_uuid,
                         file_uuid |-> s[i].file_uuid,
                         creation_date |-> s[i].creation_date]]

\* lines 445-447: direction, ascending by default.
Descending(crit) ==
    "direction" \in crit.keys /\ crit.direction = "descending"

\* x may stand before y in the order of the criteria, lines 448-453; the order
\* of entries with equal keys is up to the database.
Before(x, y, crit) ==
    IF crit.order = "date"
    THEN IF Descending(crit) THEN x.creation_date >= y.creation_date
         ELSE x.creation_date <= y.creation_date
    ELSE IF crit.order = "name"
    THEN IF Descending(crit) THEN LexLeq(SqlUpper(y.name), SqlUpper(x.name))
         ELSE LexLeq(SqlUpper(x.name), SqlUpper(y.name))
    ELSE TRUE

Ordered(F, crit) ==
    { s \in Perms(F) :
          \A i, j \in DOMAIN s : i < j => Before(s[i], s[j], crit) }

\* lines 460-463: the entries the smart order may start from for the random
\* number r: the first entry by random_number among those with
\* random_number >= r, otherwise the first by descending random_number among
\* those with random_number <= r.
Anchors(F, r) ==
    LET up   == { x \in F : x.random_number >= r }
        down == { x \in F : x.random_number <= r }
    IN  IF up /= {}
        THEN { x \in up : \A y \in up : x.random_number <= y.random_number }
        ELSE { x \in down : \A y \in down : x.random_number >= y.random_number }

\* SmartFrom without the date filter of line 465.
SmartFromFirst(F, a, limit) ==
    { SubSeq(s, 1, IF Len(s) < limit THEN Len(s) ELSE limit) :
          s \in { t \in Perms(F) :
                    \A i, j \in DOMAIN t :
                        i < j => t[i].creation_date <= t[j].creation_date } }

\* line 465: by creation date from the date of the anchor a, at most limit
\* entries (SQLite takes a negative LIMIT as no limit).
SmartFrom(F, a, limit) ==
    LET G == { x \in F : x.creation_date >= a.creation_date }
    IN  { SubSeq(s, 1, IF Len(s) < limit \/ limit < 0 THEN Len(s) ELSE limit) :
              s \in { t \in Perms(G) :
                        \A i, j \in DOMAIN t :
                            i < j => t[i].creation_date <= t[j].creation_date } }

\* An iterator right after IndexIterator.__init__, lines 374-377 and 469.
\* out: what the last call of __next__ or previous did; pure: every call so
\* far was a call of __next__ that returned a file; fwd: the references
\* these calls returned, kept by the first other call; anchor: the id of the entry
\* the smart order starts from, rnd: the random number it was found with
\* (history).
Fresh(crit, result) ==
    [live |-> TRUE, result |-> result, position |-> 0, criteria |-> crit,
     out |-> NoCall, fwd |-> <<>>, pure |-> TRUE, anchor |-> 0, rnd |-> 0,
     error |-> None, queried |-> TRUE]

\* IndexIterator.__init__, lines 395-469: the iterators the constructor may
\* return for the criteria and the random number r of line 460.
Compile(rows, crit, r) ==
    LET F == Recent(Filtered(rows, crit), crit)
    IN  IF "order" \notin crit.keys
        THEN IF "most_recent" \in crit.keys
             THEN { Fresh(crit, Refs(s)) : s \in Perms(F) }
             ELSE { Fresh(crit, InRowOrder(F)) }
        ELSE IF crit.order /= "smart"
        THEN { Fresh(crit, Refs(s)) : s \in Ordered(F, crit) }
        ELSE IF F = {}
        THEN { [Fresh(crit, <<>>) EXCEPT !.rnd = r] }
        ELSE UNION { { [Fresh(crit, Refs(s)) EXCEPT !.anchor = a.id, !.rnd = r]
                       : s \in SmartFrom(F, a, crit.smart_limit) }
                     : a \in Anchors(F, r) }

\* Index.iterator(**criteria), lines 344-355, with criteria that pass the
\* checks of lines 379-393.
NewIteratorWith(crit, r) ==
    /\ ~iter.live
    /\ iter' \in Compile(files, crit, r)
    /\ UNCHANGED << now, disk, files, tags, lock, buildVars, last, store, app, registry >>

\* Index.CRIT_VALID_KEYS, line 165.
ValidKeys ==
    { "direction", "excluded_tags", "most_recent", "order", "orientation",
      "repositories", "smart_limit", "smart_time", "tags", "types" }

\* The keys whose value is a single value: direction, most_recent, order,
\* orientation, smart_limit and smart_time always are.
Scalar(c) ==
    c.scalar \cup { "direction", "most_recent", "order", "orientation",
                    "smart_limit", "smart_time" }

\* check_param(name, criteria, required=False, ...), common.py lines 107-125,
\* for a key of the dictionary whose value is the set V (a list, or the
\* single value of a scalar key): the value is tested if it is a single
\* value, its items are tested if it is a list and recurse is set, and a
\* list is not tested otherwise; an empty list is refused.
Checked(c, key, V, recurse, Good(_)) ==
    \/ key \notin c.keys
    \/ /\ key \in Scalar(c)
       /\ \A v \in V : Good(v)
    \/ /\ key \notin Scalar(c)
       /\ V /= {}
       /\ recurse => \A v \in V : Good(v)

\* is_str, common.py lines 138-143: a non-empty string.
NonEmpty(v) == v /= <<>>

\* is_str for the ids of repositories.
IsRepo(v) == v /= ""

\* options of lines 382, 385, 386, 389.
IsDirection(v) == v \in {"ascending", "descending"}

IsOrder(v) == v \in {"date", "name", "random", "smart"}

IsOrientation(v) == v \in {"portrait", "landscape"}

IsType(v) == v \in {"image", "video"}

\* gr=0, common.py lines 171-172.
Positive(v) == v > 0

\* lines 380-393: the checks of the constructor pass.
Valid(c) ==
    /\ c.keys \subseteq ValidKeys
    /\ Checked(c, "direction", {c.direction}, FALSE, IsDirection)
    /\ Checked(c, "excluded_tags", c.excluded_tags, TRUE, NonEmpty)
    /\ Checked(c, "most_recent", {c.most_recent}, FALSE, Positive)
    /\ Checked(c, "order", {c.order}, FALSE, IsOrder)
    /\ Checked(c, "orientation", {c.orientation}, FALSE, IsOrientation)
    /\ Checked(c, "repositories", c.repositories, TRUE, IsRepo)
    /\ Checked(c, "tags", c.tags, TRUE, NonEmpty)
    /\ Checked(c, "types", c.types, FALSE, IsType)
    /\ ("orientation" \in c.keys /\ c.orientation = "smart")
       => /\ "smart_limit" \in c.keys /\ Positive(c.smart_limit)
          /\ "smart_time" \in c.keys /\ Positive(c.smart_time)

\* The constructor raised the exception e, with or without having run a
\* query.
Failed(crit, e, queried) ==
    [NoIterator EXCEPT !.criteria = crit, !.error = e, !.queried = queried]

\* IndexIterator.__init__, lines 365-470, for any criteria: ConfigError from
\* the checks, KeyError from criteria['smart_limit'] (line 465) when the
\* smart order has found an anchor, otherwise an iterator.
Construct(crit, r) ==
    /\ ~iter.live
    /\ IF ~Valid(crit)
       THEN iter' = Failed(crit, "ConfigError", FALSE)
       ELSE IF /\ "order" \in crit.keys /\ crit.order = "smart"
               /\ "smart_limit" \notin crit.keys
               /\ Recent(Filtered(files, crit), crit) /= {}
       THEN iter' = Failed(crit, "KeyError", TRUE)
       ELSE iter' \in Compile(files, crit, r)
    /\ UNCHANGED << now, disk, files, tags, lock, buildVars, last, store, app, registry >>

\* Index.iterator(), lines 344-355: the reading thread builds an iterator.
NewIterator ==
    /\ ~iter.live
    /\ iter' = Fresh(NoCriteria, Query(files))
    /\ UNCHANGED << now, disk, files, tags, lock, buildVars, last, store, app, registry >>

\* The class of the repository: A is a directory (repository/local), B an
\* rclone remote (repository/rclone).
Backend(r) == IF r = "A" THEN "local" ELSE "rclone"

\* line 511: the file of the reference can be obtained (no UuidError).
Resolvable(ref) == disk[ref.rep_uuid][ref.file_uuid].present

\* line 511, Repository.by_uuid(...).file_by_uuid(...): "file" when a file
\* object is returned, "skip" when UuidError is raised, "raise" for any
\* other exception.  A local file is checked with os.path.isfile
\* (local/file.py, lines 42-44).  An rclone file is looked up in the index
\* first (file.py, lines 106-112) and the remote is asked only for a file the
\* index does not hold (rclone/file.py, lines 50-55): that raises IoError
\* when the file is gone.
Resolve(ref) ==
    IF Backend(ref.rep_uuid) = "local"
    THEN (IF Resolvable(ref) THEN "file" ELSE "skip")
    ELSE IF RowsOf(files, ref.rep_uuid, ref.file_uuid) /= {} THEN "file"
    ELSE IF Resolvable(ref) THEN "file"
    ELSE "raise"

\* The whole seconds between two dates in hours exceed the limit, lines
\* 502-504: timedelta.seconds and .days leave out the microseconds.
TooFar(prev, next, hours) ==
    ((next - prev) \div 2) > hours * 3600

\* lines 496-497: the iterator is in smart order.
IsSmart(it) ==
    "order" \in it.criteria.keys /\ it.criteria.order = "smart"

\* lines 488-516, the loop of __next__ from position p: the position it
\* leaves and what the call does: returns the file of reference index,
\* raises StopIteration ("stop") or raises another exception ("raise": the
\* exception of the backend, or KeyError for a missing smart_time, line 504).
RECURSIVE Scan(_, _)
Scan(it, p) ==
    IF p >= Len(it.result)
    THEN [position |-> p, kind |-> "stop", index |-> 0]
    ELSE LET q == p + 1
         IN  IF IsSmart(it) /\ q > 1 /\ "smart_time" \notin it.criteria.keys
             THEN [position |-> q, kind |-> "raise", index |-> q]
             ELSE IF /\ IsSmart(it)
                /\ q > 1
                /\ TooFar(it.result[q - 1].creation_date,
                          it.result[q].creation_date, it.criteria.smart_time)
             THEN [position |-> q, kind |-> "stop", index |-> 0]
             ELSE IF Resolve(it.result[q]) = "file"
             THEN [position |-> q, kind |-> "file", index |-> q]
             ELSE IF Resolve(it.result[q]) = "skip"
             THEN Scan(it, q)
             ELSE [position |-> q, kind |-> "raise", index |-> q]

\* lines 488-516: the position after __next__.
Advance(it) == Scan(it, it.position).position

\* IndexIterator.__next__, lines 480-516, as a function of the iterator.
Step(it) ==
    [it EXCEPT !.position = Advance(it),
               !.out = [op |-> "next", n |-> 0,
                        kind |-> Scan(it, it.position).kind,
                        index |-> Scan(it, it.position).index,
                        pure |-> it.pure, restarts |-> 0]]

\* Back with the position set back by n instead of n + 1.
BackByN(it, n) ==
    IF it.position > n
    THEN [Step([it EXCEPT !.position = @ - n])
             EXCEPT !.out.op = "previous", !.out.n = n]
    ELSE [it EXCEPT !.out = [op |-> "previous", n |-> n,
                             kind |-> "stop", index |-> 0,
                             pure |-> it.pure, restarts |-> 0]]

\* IndexIterator.previous(n), lines 523-541, as a function of the iterator.
Back(it, n) ==
    IF it.position > n
    THEN [Step([it EXCEPT !.position = @ - (n + 1)])
             EXCEPT !.out.op = "previous", !.out.n = n]
    ELSE [it EXCEPT !.out = [op |-> "previous", n |-> n,
                             kind |-> "stop", index |-> 0,
                             pure |-> it.pure, restarts |-> 0]]

\* IndexIterator.__next__, lines 480-516.
IterNext ==
    /\ iter.live
    /\ iter' = LET s == Step(iter)
               IN  IF iter.pure /\ s.out.kind = "file"
                   THEN [s EXCEPT !.fwd = Append(@, s.out.index)]
                   ELSE [s EXCEPT !.pure = FALSE,
                                  !.fwd = IF iter.pure THEN @ ELSE <<>>]
    /\ UNCHANGED << now, disk, files, tags, lock, buildVars, last, store, app, registry >>

\* IndexIterator.previous(n), lines 523-541.
IterPrevious(n) ==
    /\ iter.live
    /\ iter' = [Back(iter, n) EXCEPT !.pure = FALSE,
                                     !.fwd = IF iter.pure THEN @ ELSE <<>>]
    /\ UNCHANGED << now, disk, files, tags, lock, buildVars, last, store, app, registry >>

\* Variant of Length: the references whose file can still be obtained.
LengthResolvable(it) ==
    Cardinality({ i \in DOMAIN it.result : Resolvable(it.result[i]) })

\* IndexIterator.length, lines 518-521.
Length(it) == Len(it.result)

\* slideshow.py line 180: the attempts of one request for content.
MaxAttempts == 5

\* Slideshow._create_next_widget, slideshow.py lines 149-186: the loop from
\* attempt a + 1 on, after k restarts, with the iterator it; the iterators
\* the slideshow may hold when the widget is returned.  out.kind is "file"
\* for the widget of a file, "error" for the ErrorMessage widget; out.index
\* is the reference the last attempt retrieved, 0 if it retrieved none;
\* out.n counts the attempts, out.restarts the iterators compiled after
\* StopIteration.  The finally clause returns the ErrorMessage widget and
\* compiles a new iterator when the attempt was the fifth one.
RECURSIVE ShowFrom(_, _, _, _)
ShowFrom(it, previous, a, k) ==
    LET s    == IF previous THEN Back(it, 1) ELSE Step(it)
        done(x, kind, restarts) ==
            [x EXCEPT !.out = [op |-> "show", n |-> a + 1, kind |-> kind,
                               index |-> IF s.out.kind = "file"
                                         THEN s.out.index ELSE 0,
                               pure |-> FALSE, restarts |-> restarts],
                      !.pure = FALSE, !.fwd = <<>>]
        new  == Compile(files, it.criteria, 1)
    IN  IF a + 1 >= MaxAttempts
        THEN { done(x, "error", k) : x \in new }
        ELSE IF s.out.kind = "file"
        THEN { done(s, "file", k) }
        ELSE IF s.out.kind = "stop"
        THEN UNION { ShowFrom(x, FALSE, a + 1, k + 1) : x \in new }
        ELSE ShowFrom(s, previous, a + 1, k)

\* Slideshow._create_next_widget, slideshow.py lines 124-186.
CreateNextWidget(it, previous) ==
    IF Length(it) = 0
    THEN { [x EXCEPT !.out = [op |-> "show", n |-> 0, kind |-> "error",
                              index |-> 0, pure |-> FALSE, restarts |-> 0],
                     !.pure = FALSE]
           : x \in Compile(files, it.criteria, 1) }
    ELSE ShowFrom(it, previous, 0, 0)

\* Slideshow.play, slideshow.py lines 284-303: the iterator is compiled from
\* the criteria of the slideshow and the first content is requested.
Play(crit) ==
    /\ ~iter.live
    /\ iter' \in UNION { CreateNextWidget(x, FALSE)
                        : x \in Compile(files, crit, 1) }
    /\ UNCHANGED << now, disk, files, tags, lock, buildVars, last, store, app, registry >>

\* Slideshow.next and Slideshow.previous, slideshow.py lines 232-264 and
\* 305-307, while the slideshow plays.
ShowNext(previous) ==
    /\ iter.live
    /\ iter.out.op = "show"
    /\ iter' \in CreateNextWidget(iter, previous)
    /\ UNCHANGED << now, disk, files, tags, lock, buildVars, last, store, app, registry >>

\* ------------------------------------------------------------------ Spec
DiskStep ==
    \/ \E r \in Repos : \E f \in FilesOf(r), tl \in TagLists : Touch(r, f, tl)
    \/ \E r \in Repos : \E f \in FilesOf(r) : Remove(r, f)

\* The steps of build(rep, rebuild) in which nothing outside the index fails.
\* R: the repositories the thread w builds the index of; S: the values
\* random.random() returns.
NominalStep(w, R, S) ==
    \/ \E r \in R : StartUpdate(w, r)
    \/ \E r \in R : StartRebuild(w, r)
    \/ \E r \in R, m \in {"update", "rebuild"} : StartPoisoned(w, r, m)
    \/ PurgeTags(w)
    \/ \E f \in FileIds : ExamineExtract(w, f)
    \/ \E f \in FileIds : ExamineSkip(w, f)
    \/ \E f \in FileIds : ExaminePoisoned(w, f)
    \/ \E seed \in S : CommitAdd(w, seed)
    \/ CommitFail(w)
    \/ Sweep(w)
    \/ SweepRaises(w)
    \/ Close(w)
    \/ Raise(w)

\* The steps in which the backing store fails.
FaultStep(w) ==
    \/ \E f \in FileIds : ExamineFail(w, f)
    \/ EnumFail(w)

BuildStep(w, R) == NominalStep(w, R, Seeds) \/ FaultStep(w)

\* No build pass is running.
Quiet == \A w \in Workers : pc[w] = "idle"

\* The steps of the reading thread.
IterStep ==
    \/ NewIterator
    \/ IterNext
    \/ \E n \in 1..2 : IterPrevious(n)

\* Builds in two threads and a reading thread; the backing stores change at
\* any time.
Next ==
    \/ DiskStep
    \/ \E w \in Workers : BuildStep(w, Repos)
    \/ IterStep

Spec == Init /\ [][Next]_vars

\* Builds in one thread, one after the other; the backing stores change
\* between the passes only.
NextSeq ==
    \/ Quiet /\ DiskStep
    \/ BuildStep("w1", Repos)

SpecSeq == Init /\ [][NextSeq]_vars

\* As SpecSeq, and the backing stores never fail; random.random() returns
\* one value.
NextNominal ==
    \/ Quiet /\ DiskStep
    \/ NominalStep("w1", Repos, {1})

SpecNominal == Init /\ [][NextNominal]_vars

\* One thread builds the index of A, another the index of B, side by side;
\* the backing stores never fail and the file of B is changed before the
\* first pass only.
NextConc ==
    \/ passes = 0 /\ \E tl \in TagLists : Touch("B", "f1", tl)
    \/ NominalStep("w1", {"A"}, {1})
    \/ NominalStep("w2", {"B"}, {1})

SpecConc == Init /\ [][NextConc]_vars

\* One thread builds the index of A while another thread reads the index
\* through an iterator and steps back by one; the backing stores never fail,
\* a file of A changes before the first pass and files disappear between the
\* passes.
NextIter ==
    \/ passes = 0 /\ \E tl \in TagLists : Touch("A", "f1", tl)
    \/ Quiet /\ \E r \in Repos : \E f \in FilesOf(r) : Remove(r, f)
    \/ NominalStep("w1", {"A"}, {1})
    \/ NewIterator
    \/ IterNext
    \/ IterPrevious(1)

SpecIter == Init /\ [][NextIter]_vars

\* ------------------------------------------------------------ query specs
\* The file the entry with id i of a queried index belongs to.
Slot(i) ==
    [rep_uuid  |-> IF i <= 2 THEN "A" ELSE "B",
     file_uuid |-> IF i % 2 = 1 THEN "f1" ELSE "f2"]

\* The indexes with MaxRows entries whose columns take the given values.
Indexes(Types, Orientations, Dates, Names, Numbers, TagSets) ==
    { { [id            |-> i,
         rep_uuid      |-> Slot(i).rep_uuid,
         file_uuid     |-> Slot(i).file_uuid,
         name          |-> g[i].name,
         type          |-> g[i].type,
         orientation   |-> g[i].orientation,
         creation_date |-> g[i].creation_date,
         last_modified |-> 0,
         last_updated  |-> 0,
         random_number |-> g[i].random_number,
         verified      |-> TRUE,
         tags          |-> g[i].tags] : i \in 1..MaxRows }
      : g \in [1..MaxRows ->
                 [type : Types, orientation : Orientations,
                  creation_date : Dates, name : Names,
                  random_number : Numbers, tags : TagSets]] }

\* Every file of a queried index exists.
DiskAll ==
    [r \in Repos |-> [f \in FileIds |->
        [present |-> TRUE, last_modified |-> 0, tags |-> <<>>]]]

\* The tags of a queried index: "x" and "A-umlaut" (code point 196).
TagsQ == { [id |-> 1, name |-> <<120>>], [id |-> 2, name |-> <<196>>] }

\* The program starts with one of the indexes I; no build runs.
InitWith(I) ==
    /\ now = 0
    /\ disk = DiskAll
    /\ files \in I
    /\ tags = TagsQ
    /\ lock = None
    /\ repo = [w \in Workers |-> None]
    /\ mode = [w \in Workers |-> None]
    /\ pc = [w \in Workers |-> "idle"]
    /\ visited = [w \in Workers |-> {}]
    /\ cur = [w \in Workers |-> None]
    /\ marks = [w \in Workers |-> {}]
    /\ poisoned = [w \in Workers |-> FALSE]
    /\ pre = [w \in Workers |-> None]
    /\ extracted = [w \in Workers |-> {}]
    /\ failed = [w \in Workers |-> {}]
    /\ passes = 0
    /\ last = None
    /\ again = [w \in Workers |-> FALSE]
    /\ iter = NoIterator
    /\ app = App0
    /\ registry = [uuids |-> {}, uuid |-> 0, outcome |-> "none"]
    /\ store = "open"

\* The criteria c with the key set to the value.
With(c, key, value) == [c EXCEPT ![key] = value, !.keys = @ \cup {key}]

\* The criteria of C and those with the key set to one of the values.
Extend(C, key, Values) == C \cup { With(c, key, v) : c \in C, v \in Values }

\* Criteria that filter: by repository A, by type image, by orientation
\* portrait, by tag "X" (88) or "a-umlaut" (228), without tag "A-umlaut".
CritFilter ==
    Extend(Extend(Extend(Extend(Extend({NoCriteria},
        "repositories", {{"A"}}),
        "types", {{"image"}}),
        "orientation", {"portrait"}),
        "tags", {{<<88>>}, {<<228>>}}),
        "excluded_tags", {{<<196>>}})

\* An iterator with filter criteria is built over an index whose entries
\* differ in type, orientation and tags.
InitFilter ==
    InitWith(Indexes({"image", "video"}, {"landscape", "portrait"}, {0},
                     {<<97>>}, {1}, {{}, {1}, {2}}))

NextFilter == \E crit \in CritFilter : NewIteratorWith(crit, 1)

SpecFilter == InitFilter /\ [][NextFilter]_vars

\* Criteria with most_recent, alone or with a filter by type and an order
\* by date.
CritRecent ==
    Extend(Extend(Extend({NoCriteria},
        "types", {{"image"}}),
        "most_recent", 1..MaxRows),
        "order", {"date"})

\* An iterator with most_recent is built over an index whose entries differ
\* in type and creation date.
InitRecent ==
    InitWith(Indexes({"image", "video"}, {"landscape"}, 0..2,
                     {<<97>>}, {1}, {{}}))

NextRecent == \E crit \in CritRecent : NewIteratorWith(crit, 1)

SpecRecent == InitRecent /\ [][NextRecent]_vars

\* Criteria with an order and a direction.
CritOrder ==
    Extend(Extend({NoCriteria},
        "order", {"date", "name", "random"}),
        "direction", {"ascending", "descending"})

\* The names "a", "B", "a-umlaut a" and "A-umlaut b".
NamesQ == { <<97>>, <<66>>, <<228, 97>>, <<196, 98>> }

\* An iterator with an order is built over an index whose entries differ in
\* name and creation date.
InitOrder ==
    InitWith(Indexes({"image"}, {"landscape"}, 0..1, NamesQ, {1}, {{}}))

NextOrder == \E crit \in CritOrder : NewIteratorWith(crit, 1)

SpecOrder == InitOrder /\ [][NextOrder]_vars

\* Criteria with the smart order: a limit of one or one below the size of
\* the index, a time of 24 hours, with or without a filter by type.
CritSmart ==
    { With(With(With(c, "order", "smart"), "smart_time", 24),
           "smart_limit", l) :
          c \in Extend({NoCriteria}, "types", {{"image"}}),
          l \in {1, MaxRows - 1} }

\* An iterator in smart order is built over an index whose entries differ in
\* type, creation date and random number.
InitSmart ==
    InitWith(Indexes({"image", "video"}, {"landscape"}, 0..2,
                     {<<97>>}, Seeds, {{}}))

\* random.random() of line 460 returns a number among or above the random
\* numbers of the entries.
NextSmart ==
    \E crit \in CritSmart : \E r \in 2..3 : NewIteratorWith(crit, r)

SpecSmart == InitSmart /\ [][NextSmart]_vars

\* Dates count half seconds: the half seconds of an hour.
Hour == 7200

\* Creation dates 0 h, 1 h, 24 h, 24 h and half a second, 30 h.
DatesWalk == { 0, Hour, 24 * Hour, 24 * Hour + 1, 30 * Hour }

\* Criteria of a traversal: none, or smart order over the whole index with a
\* time of 24 hours.
CritWalk ==
    { NoCriteria,
      With(With(With(NoCriteria, "order", "smart"),
                "smart_time", 24), "smart_limit", MaxRows + 1) }

\* An index whose entries differ in creation date is traversed; every file
\* exists.
InitWalk ==
    InitWith(Indexes({"image"}, {"landscape"}, DatesWalk, {<<97>>}, {1}, {{}}))

NextWalk ==
    \/ \E crit \in CritWalk : NewIteratorWith(crit, 1)
    \/ IterNext
    \/ \E n \in 1..MaxRows : IterPrevious(n)

SpecWalk == InitWalk /\ [][NextWalk]_vars

\* Smart order over the whole index with a time of 24 hours.
SmartWalk ==
    With(With(With(NoCriteria, "order", "smart"),
              "smart_time", 24), "smart_limit", MaxRows + 1)

\* An index whose entries are 0, 24 or 30 hours old; every file exists.
InitStale ==
    InitWith(Indexes({"image"}, {"landscape"}, { 0, 24 * Hour, 30 * Hour },
                     {<<97>>}, {1}, {{}}))

\* Files of the directory A disappear; the index is traversed in smart
\* order.
NextStale ==
    \/ \E f \in FileIds : Remove("A", f)
    \/ NewIteratorWith(SmartWalk, 1)
    \/ IterNext

SpecStale == InitStale /\ [][NextStale]_vars

\* The criteria c with the key set to the single value v.
WithScalar(c, key, v) ==
    [With(c, key, {v}) EXCEPT !.scalar = @ \cup {key}]

\* Criteria with one key each, well-formed or not: values outside the
\* enumerations, an empty tag, most_recent 0, a key that does not exist.
CritOneKey ==
    { With(NoCriteria, "order", v) : v \in {"date", "sideways"} }
    \cup { With(NoCriteria, "direction", v) : v \in {"descending", "up"} }
    \cup { With(NoCriteria, "orientation", v) : v \in {"portrait", "square"} }
    \cup { With(NoCriteria, "types", V) : V \in {{"image"}, {"sound"}} }
    \cup { WithScalar(NoCriteria, "types", v) : v \in {"image", "sound"} }
    \cup { With(NoCriteria, "tags", V) : V \in {{<<120>>}, {<<>>}} }
    \cup { WithScalar(NoCriteria, "tags", v) : v \in {<<120>>, <<>>} }
    \cup { With(NoCriteria, "most_recent", v) : v \in {0, 1} }
    \cup { [NoCriteria EXCEPT !.keys = {"colour"}] }

\* Criteria with the smart order: smart_limit missing, 0 or 2, smart_time
\* missing, 0 or 24.
CritCompanions ==
    Extend(Extend({ With(NoCriteria, "order", "smart") },
        "smart_limit", {0, 2}),
        "smart_time", {0, 24})

\* An iterator is constructed from any of these criteria over an empty index
\* or an index of images and videos.
InitCheck ==
    InitWith(Indexes({"image", "video"}, {"landscape"}, {0},
                     {<<97>>}, {1}, {{}}) \cup {{}})

NextCheck ==
    \E crit \in CritOneKey \cup CritCompanions : Construct(crit, 1)

SpecCheck == InitCheck /\ [][NextCheck]_vars

\* One thread builds the index of A while a slideshow without criteria
\* plays, forwards and backwards; the backing stores never fail, a file of A
\* changes before the first pass and files disappear between the passes.
NextShow ==
    \/ passes = 0 /\ \E tl \in TagLists : Touch("A", "f1", tl)
    \/ Quiet /\ \E r \in Repos : \E f \in FilesOf(r) : Remove(r, f)
    \/ NominalStep("w1", {"A"}, {1})
    \/ Play(NoCriteria)
    \/ ShowNext(FALSE)
    \/ ShowNext(TRUE)

SpecShow == Init /\ [][NextShow]_vars

\* Builds of repository A in one thread, one after the other; extraction and
\* enumeration may fail; the backing stores change between the passes only.
NextFault ==
    \/ Quiet /\ DiskStep
    \/ NominalStep("w1", {"A"}, {1})
    \/ FaultStep("w1")

SpecFault == Init /\ [][NextFault]_vars

\* ------------------------------------------------------- metadata extraction
\* RepositoryFile.__init__, file.py lines 89-92: the defaults of a file
\* constructed without index lookup.
NewFile ==
    [width |-> 0, height |-> 0, rotation |-> 0, orientation |-> "landscape"]

\* file.py lines 170-173 and 256-259: portrait or landscape from the
\* dimensions and the rotation of the file object.
DeriveOrientation(file) ==
    IF \/ file.width < file.height /\ file.rotation \in {0, 180}
       \/ file.width > file.height /\ file.rotation \in {90, 270}
    THEN "portrait" ELSE "landscape"

\* _extract_image_metadata, lines 151-173.  size: what PIL reports; exif:
\* the value of the EXIF tag "Image Orientation", 0 if the image has none.
ExtractImageMetadata(file, size, exif) ==
    LET sized == [file EXCEPT !.width = size[1], !.height = size[2]]
        rotated == [sized EXCEPT !.rotation =
                        IF exif = 8 THEN 90
                        ELSE IF exif = 3 THEN 180
                        ELSE IF exif = 6 THEN 270
                        ELSE @]
    IN  [rotated EXCEPT !.orientation = DeriveOrientation(rotated)]

\* _extract_video_metadata, lines 229-259.  data: the first video stream
\* ffprobe reports; data.tags: the stream has tags; data.rotate: the tag
\* "rotate", None if the stream has none.  Line 251 compares and does not
\* assign.
ExtractVideoMetadata(file, data) ==
    LET sized == [file EXCEPT !.width = data.width, !.height = data.height]
        rotated == [sized EXCEPT !.rotation =
                        IF data.rotate = "0" THEN 0
                        ELSE IF data.rotate = "90" THEN 270
                        ELSE IF data.rotate = "180" THEN @
                        ELSE IF data.rotate = "270" THEN 90
                        ELSE @]
    IN  IF ~data.tags THEN sized
        ELSE [rotated EXCEPT !.orientation = DeriveOrientation(rotated)]

\* extract_metadata of a file constructed without index lookup
\* (local/file.py lines 60-66), outside a build pass: cur[w] holds what the
\* file declares and the file object after the extraction.
ExtractMetadata(w, type, size, exif, tagged, rotate) ==
    /\ pc[w] = "idle"
    /\ extracted' = [extracted EXCEPT ![w] = {"f1"}]
    /\ cur' = [cur EXCEPT ![w] =
                 [type |-> type, size |-> size, exif |-> exif,
                  tagged |-> tagged, rotate |-> rotate,
                  file |-> IF type = "image"
                           THEN ExtractImageMetadata(NewFile, size, exif)
                           ELSE ExtractVideoMetadata(NewFile,
                                    [width |-> size[1], height |-> size[2],
                                     tags |-> tagged, rotate |-> rotate])]]
    /\ UNCHANGED << now, disk, files, tags, lock, repo, mode, pc, visited,
                    marks, poisoned, pre, failed, passes, last, again, iter, store, app, registry >>

\* The metadata of one image or one video is extracted.
NextExtract ==
    \E size \in (1..MaxDim) \X (1..MaxDim) :
        \/ \E exif \in {0, 1, 3, 6, 8} :
               ExtractMetadata("w1", "image", size, exif, FALSE, None)
        \/ ExtractMetadata("w1", "video", size, 0, FALSE, None)
        \/ \E rotate \in {None, "0", "90", "180", "270"} :
               ExtractMetadata("w1", "video", size, 0, TRUE, rotate)

SpecExtract == Init /\ [][NextExtract]_vars

\* ----------------------------------------------------------- opening the index
\* The program before Index() is called.
InitOpen == Started /\ store = "none"

\* Index.__init__, lines 173-189.  opened: create_all and the first
\* session succeed.  If they raise, the handler at lines 188-189 logs the
\* exception and the constructor returns the object without its sessions.
IndexInit(opened) ==
    /\ store = "none"
    /\ store' = IF opened THEN "open" ELSE "unopened"
    /\ UNCHANGED << now, disk, files, tags, lock, buildVars, last, iter, app, registry >>

\* build on an object without _scoped_session: line 208 raises
\* AttributeError to the caller.
BuildUnopened(w) ==
    /\ store = "unopened"
    /\ pc[w] = "idle"
    /\ passes < MaxPasses
    /\ passes' = passes + 1
    /\ UNCHANGED << now, disk, files, tags, lock, repo, mode, pc, visited,
                    cur, marks, poisoned, pre, extracted, failed, last,
                    again, iter, store, app, registry >>

\* The index is opened, then built in one thread.
NextOpen ==
    \/ \E opened \in BOOLEAN : IndexInit(opened)
    \/ store = "open" /\ Quiet /\ DiskStep
    \/ store = "open" /\ NominalStep("w1", {"A"}, {1})
    \/ BuildUnopened("w1")

SpecOpen == InitOpen /\ [][NextOpen]_vars

\* ------------------------------------------------------------ stale slideshow
\* A slideshow plays with an iterator compiled when the index held entries
\* of the rclone repository B (several for the file f1: build adds an entry
\* whenever the file has changed); B/f1 has been removed since, from the
\* remote and from the index.  The iterator refers to B/f1 and to A/f1.
InitRetry ==
    /\ now = 0
    /\ disk = [Disk0 EXCEPT !["B"]["f1"] = Absent]
    /\ files = { x \in Files0 : x.rep_uuid = "A" }
    /\ tags = Tags0
    /\ lock = None
    /\ repo = [w \in Workers |-> None]
    /\ mode = [w \in Workers |-> None]
    /\ pc = [w \in Workers |-> "idle"]
    /\ visited = [w \in Workers |-> {}]
    /\ cur = [w \in Workers |-> None]
    /\ marks = [w \in Workers |-> {}]
    /\ poisoned = [w \in Workers |-> FALSE]
    /\ pre = [w \in Workers |-> None]
    /\ extracted = [w \in Workers |-> {}]
    /\ failed = [w \in Workers |-> {}]
    /\ passes = 0
    /\ last = None
    /\ again = [w \in Workers |-> FALSE]
    /\ store = "open"
    /\ app = App0
    /\ registry = [uuids |-> {}, uuid |-> 0, outcome |-> "none"]
    /\ \E n \in 1..MaxShown :
           \E s \in [1..n -> {"A", "B"}], p \in 0..n :
               iter = [Fresh(NoCriteria,
                             [i \in 1..n |-> [rep_uuid |-> s[i],
                                              file_uuid |-> "f1",
                                              creation_date |-> 0]])
                         EXCEPT !.position = p, !.pure = FALSE,
                                !.out = [NoCall EXCEPT !.op = "show"]]

\* The next or the previous content is requested.
NextRetry == ShowNext(FALSE) \/ ShowNext(TRUE)

SpecRetry == InitRetry /\ [][NextRetry]_vars

\* ------------------------------------------------------------ the application
\* App.play, show/app.py lines 468-478, with Slideshow.play.
AppPlay(a) ==
    IF a.play_state = "playing" THEN a
    ELSE [a EXCEPT !.shows[a.root] = "playing", !.play_state = "playing"]

\* App.pause, lines 459-466, with Slideshow.pause (slideshow.py lines
\* 271-282), which leaves a paused or stopped slideshow as it is.
AppPause(a) ==
    IF a.play_state \in {"paused", "stopped"} THEN a
    ELSE [a EXCEPT !.shows[a.root] =
                       IF @ \in {"paused", "stopped"} THEN @ ELSE "paused",
                   !.play_state = "paused"]

\* App.stop, lines 507-519, with Slideshow.stop.
AppStop(a) ==
    IF a.play_state = "stopped" THEN a
    ELSE [a EXCEPT !.shows[a.root] = "stopped", !.play_state = "stopped"]

\* The setter of App.play_state, lines 491-505.
SetPlayState(a, state) ==
    IF a.play_state = state THEN a
    ELSE IF state = "playing" THEN AppPlay(a)
    ELSE IF state = "paused" THEN AppPause(a)
    ELSE AppStop(a)

\* The setter of App.slideshow, lines 544-564.
SetSlideshow(a, name) ==
    LET new_root == IF name \in DOMAIN a.shows THEN name ELSE a.root
    IN  IF new_root = a.root THEN a
        ELSE SetPlayState([AppStop(a) EXCEPT !.root = new_root], a.play_state)

\* The application is controlled while the indexer builds the index of A in
\* the background; between two passes the files of A change.
NextApp ==
    \/ Quiet /\ DiskStep
    \/ \E state \in {"playing", "paused", "stopped"} :
           /\ app' = [SetPlayState(app, state) EXCEPT !.call = None]
           /\ UNCHANGED << now, disk, files, tags, lock, buildVars, last, iter,
                           store, registry >>
    \/ \E name \in {"s1", "s2", "s3"} :
           /\ app' = [SetSlideshow(app, name) EXCEPT !.call = name]
           /\ UNCHANGED << now, disk, files, tags, lock, buildVars, last, iter,
                           store, registry >>
    \/ NominalStep("w1", {"A"}, {1})

SpecApp == Init /\ [][NextApp]_vars

\* ---------------------------------------------------------------- repositories
\* repository.py line 18.
MAX_LEN_UUID == 36

\* Repository.__init__, repository.py lines 40-53, with an identifier of
\* n characters and a valid configuration: UuidError at line 47, or the
\* repository is added to the dictionary at line 53.
RepositoryInit(n) ==
    /\ Cardinality(registry.uuids) < MaxRegistered
    /\ registry' =
           IF n >= MAX_LEN_UUID
           THEN [registry EXCEPT !.uuid = n, !.outcome = "UuidError"]
           ELSE [uuids |-> registry.uuids \cup {n}, uuid |-> n,
                 outcome |-> "registered"]
    /\ UNCHANGED << now, disk, files, tags, lock, buildVars, last, iter,
                    store, app >>

\* Repositories are created from the configuration.
NextRegister == \E n \in 1..MaxLen : RepositoryInit(n)

SpecRegister == Init /\ [][NextRegister]_vars

\* ------------------------------------------------------------------ claims
\* A row without its verified flag.
Core(x) == [id |-> x.id, rep_uuid |-> x.rep_uuid, file_uuid |-> x.file_uuid,
            last_modified |-> x.last_modified, last_updated |-> x.last_updated,
            random_number |-> x.random_number, tags |-> x.tags]

Cores(rows) == { Core(x) : x \in rows }

\* The entries of the repository of the pass of w whose file has gone.
Gone(w) == { x \in pre[w].files :
               /\ x.rep_uuid = repo[w]
               /\ ~disk[repo[w]][x.file_uuid].present }

\* The thread w takes a step of build in this transition.
Acts(w) == pc'[w] /= pc[w] \/ visited'[w] /= visited[w]

\* The repository of the pass the step of w belongs to.
PassRepo(w) == IF pc[w] = "idle" THEN repo'[w] ELSE repo[w]

\* The file f of repository r has an entry that is verified and up to date.
UpToDate(r, f) ==
    \E x \in RowsOf(files, r, f) :
        x.verified /\ x.last_updated >= disk[r][f].last_modified

\* C1: when an update pass has completed in which nothing failed, nothing was
\* extracted and exactly one entry of the repository had lost its file, the
\* index holds the entries it held before the pass except that one, and one
\* entry less.
C1_DeletionOnDisappearance ==
    \A w \in Workers :
        ( /\ pc[w] = "closing"
          /\ mode[w] = "update"
          /\ failed[w] = {}
          /\ extracted[w] = {}
          /\ Cardinality(Gone(w)) = 1 )
        => /\ Cores(files) = Cores(pre[w].files \ Gone(w))
           /\ Cardinality(files) = Cardinality(pre[w].files) - 1

\* C3: when an update pass has completed, every file it extracted again has
\* the random number in its entry that its entry had before the pass.
C3_SeedStability ==
    \A w \in Workers :
        (pc[w] = "closing" /\ mode[w] = "update")
        => \A f \in extracted[w] :
               \A old \in RowsOf(pre[w].files, repo[w], f) :
                   \A new \in RowsOf(files, repo[w], f) :
                       new.random_number = old.random_number

\* C4: in every committed state of the index there is at most one entry for
\* each pair of repository and file.
C4_RecordUniqueness ==
    \A x, y \in files :
        (x.rep_uuid = y.rep_uuid /\ x.file_uuid = y.file_uuid) => x = y

\* C5: no step of a build pass for one repository deletes or changes (the
\* verified flag aside) an entry of another repository.
C5_RepositoryScoping ==
    [][ \A w \in Workers :
          Acts(w) =>
              Cores({ x \in files' : x.rep_uuid /= PassRepo(w) })
                  = Cores({ x \in files : x.rep_uuid /= PassRepo(w) }) ]_vars

\* C6: a pass in which the processing of a file failed never ends by an
\* exception of the final sweep, and when it has completed every other file
\* the enumeration yielded has a verified entry that is up to date.
C6_FailureTolerance ==
    \A w \in Workers :
        /\ pc[w] /= "raised_sweep"
        /\ pc[w] = "closing" =>
               \A f \in visited[w] \ failed[w] : UpToDate(repo[w], f)

\* C7: when a rebuild pass has completed, every tag is linked to an entry.
C7_RebuildPurgesOrphans ==
    \A w \in Workers :
        (pc[w] = "closing" /\ mode[w] = "rebuild")
        => \A t \in tags : ~Unused(t, files)

C8_UpdateDecisionRule ==
    [][ /\ \A w \in Workers : \A f \in FileIds :
             ( /\ mode[w] = "update"
               /\ ~poisoned[w]
               /\ f \notin visited[w]
               /\ f \in visited'[w] )
             => LET rows   == RowsOf(View(w), repo[w], f)
                    mtime  == disk[repo[w]][f].last_modified
                    stale  == IF rows = {} THEN TRUE
                              ELSE First(rows).last_updated < mtime
                IN  IF stale
                    THEN /\ f \in extracted'[w]
                         /\ pc'[w] = "commit"
                         /\ cur'[w].file_uuid = f
                         /\ files' = files
                    ELSE /\ extracted'[w] = extracted[w]
                         /\ pc'[w] = "enum"
                         /\ files' = files
                         /\ tags' = tags
                         /\ Cores(View(w)') = Cores(View(w))
                         /\ \A x \in RowsOf(View(w)', repo[w], f) : x.verified
        /\ \A x \in files' :
             (x.id \notin { y.id : y \in files })
             => \E w \in Workers :
                    /\ pc[w] = "commit"
                    /\ cur[w].file_uuid = x.file_uuid
                    /\ repo[w] = x.rep_uuid
                    /\ x.file_uuid \in extracted[w]
                    /\ x.verified ]_vars

\* An update pass has completed that extracted one file and kept the entry
\* of another.
C8_Witness ==
    \E w \in Workers :
        /\ pc[w] = "closing"
        /\ mode[w] = "update"
        /\ extracted[w] /= {}
        /\ \E f \in visited[w] \ extracted[w] : UpToDate(repo[w], f)

\* C9: in every state there is at most one row of table tags for a name.
C9_NoDuplicateTags ==
    \A t, u \in tags : t.name = u.name => t = u

\* Two passes hold a new tag object of the same name, both about to commit.
C9_Witness ==
    /\ pc["w1"] = "commit"
    /\ pc["w2"] = "commit"
    /\ \E i \in NewPos(cur["w1"]) : \E j \in NewPos(cur["w2"]) :
           cur["w1"].names[i] = cur["w2"].names[j]

\* C10: once an iterator is constructed, no step changes its sequence of
\* references or the value of length.
C10_SnapshotImmutability ==
    [][ iter.live => /\ iter'.live
                     /\ iter'.result = iter.result
                     /\ Length(iter)' = Length(iter) ]_vars

\* The iterator has been traversed to its end, skipping a reference whose
\* file is missing, over an index that no longer holds what it held when the
\* iterator was constructed.
C10_Witness ==
    /\ iter.live
    /\ iter.position = Len(iter.result)
    /\ \E i \in DOMAIN iter.result : ~Resolvable(iter.result[i])
    /\ Query(files) /= iter.result

\* The entry a reference of a queried index stands for.
RowOf(ref) ==
    CHOOSE x \in files :
        x.rep_uuid = ref.rep_uuid /\ x.file_uuid = ref.file_uuid

\* The entries the result of the iterator refers to.
ResultRows(it) == { RowOf(it.result[i]) : i \in DOMAIN it.result }

\* The entry carries a tag that equals one of the values but for case.
CarriesTag(x, values) ==
    \E name \in TagNames(x) : \E v \in values : PyLower(name) = PyLower(v)

\* The entry satisfies the filters for repository, type, orientation and
\* tags that the criteria give.
Selected(x, c) ==
    /\ "repositories" \in c.keys => x.rep_uuid \in c.repositories
    /\ "types" \in c.keys => x.type \in c.types
    /\ "orientation" \in c.keys => x.orientation = c.orientation
    /\ "tags" \in c.keys => CarriesTag(x, c.tags)

\* The iterator was built without most_recent and without the smart order.
PlainFilter(it) ==
    /\ it.live
    /\ "most_recent" \notin it.criteria.keys
    /\ ~IsSmart(it)

\* C11: the result of an iterator built without most_recent, smart order
\* and excluded_tags holds every entry once that satisfies all the filters
\* given, tags compared without regard to case, and no other entry.
C11_FilterConjunction ==
    (PlainFilter(iter) /\ "excluded_tags" \notin iter.criteria.keys)
    => /\ ResultRows(iter) = { x \in files : Selected(x, iter.criteria) }
       /\ Len(iter.result) = Cardinality(ResultRows(iter))

\* C12: the result of an iterator built with excluded_tags holds no entry
\* that carries a tag equal to an excluded tag but for case, and holds every
\* entry without tags that satisfies the other filters.
C12_ExcludedTags ==
    (PlainFilter(iter) /\ "excluded_tags" \in iter.criteria.keys)
    => /\ \A x \in ResultRows(iter) :
              ~CarriesTag(x, iter.criteria.excluded_tags)
       /\ \A x \in files :
              (x.tags = {} /\ Selected(x, iter.criteria))
              => x \in ResultRows(iter)

\* The entries that pass the filters other than most_recent.
Passing(c) == { x \in files : Selected(x, c) }

\* d is the N-th largest creation date of F, counting every entry, or the
\* smallest date if F has fewer than N entries.
IsBoundary(F, N, d) ==
    /\ \E x \in F : x.creation_date = d
    /\ Cardinality({ x \in F : x.creation_date > d }) < N
    /\ \/ Cardinality({ x \in F : x.creation_date >= d }) >= N
       \/ \A x \in F : x.creation_date >= d

\* C13: with most_recent = N the result holds exactly the entries passing
\* the other filters whose creation date is not before the N-th largest
\* creation date among them, entries tied at that date included, each once.
C13_MostRecentTies ==
    (iter.live /\ "most_recent" \in iter.criteria.keys /\ ~IsSmart(iter))
    => LET F == Passing(iter.criteria)
           N == iter.criteria.most_recent
       IN  /\ \A d \in { x.creation_date : x \in F } :
                  IsBoundary(F, N, d)
                  => ResultRows(iter) = { x \in F : x.creation_date >= d }
           /\ F = {} => iter.result = <<>>
           /\ Len(iter.result) = Cardinality(ResultRows(iter))
           /\ (Cardinality(F) >= N => Len(iter.result) >= N)
           /\ (Cardinality(F) < N => Len(iter.result) = Cardinality(F))

\* An iterator with most_recent whose result is longer than most_recent
\* because entries tie at the boundary date, while an older entry is left out.
C13_Witness ==
    /\ iter.live
    /\ "most_recent" \in iter.criteria.keys
    /\ Len(iter.result) > iter.criteria.most_recent
    /\ Len(iter.result) < Cardinality(Passing(iter.criteria))

\* The key an entry is sorted by, names without regard to case.
SortKey(x, c) ==
    IF c.order = "name" THEN PyLower(x.name) ELSE <<x.creation_date>>

\* C14: with order = name the result is sorted by the name without regard to
\* case, with order = date by creation date, ascending unless the direction
\* is descending, and it holds the same entries as without the order.
C14_NameDateOrder ==
    (iter.live /\ "order" \in iter.criteria.keys
               /\ iter.criteria.order \in {"name", "date"})
    => /\ \A i, j \in DOMAIN iter.result :
              i < j =>
                  LET a == SortKey(RowOf(iter.result[i]), iter.criteria)
                      b == SortKey(RowOf(iter.result[j]), iter.criteria)
                  IN  IF Descending(iter.criteria)
                      THEN LexLeq(b, a) ELSE LexLeq(a, b)
       /\ ResultRows(iter) = Passing(iter.criteria)
       /\ Len(iter.result) = Cardinality(ResultRows(iter))

\* The entry the smart order of the iterator started from.
Anchor(it) == CHOOSE x \in files : x.id = it.anchor

\* The iterator is in smart order and entries pass its filters.
SmartBuilt(it) ==
    it.live /\ IsSmart(it) /\ Passing(it.criteria) /= {}

\* C18: the smart order starts from an entry with the smallest random number
\* not below the fresh random number r among the entries passing the
\* filters, and if there is none, from an entry with the smallest random
\* number of them all.
C18_SmartAnchor ==
    SmartBuilt(iter)
    => LET F  == Passing(iter.criteria)
           up == { x \in F : x.random_number >= iter.rnd }
           a  == Anchor(iter)
       IN  /\ a \in F
           /\ IF up /= {}
              THEN a \in up /\ \A y \in up : a.random_number <= y.random_number
              ELSE \A y \in F : a.random_number <= y.random_number

\* C19: in smart order the result has at most smart_limit entries, is sorted
\* by creation date ascending, holds only entries that pass the filters and
\* are not older than the anchor, each once, and leaves out such an entry
\* only if the limit is reached and the entry is not older than the last one
\* of the result.
C19_SmartResult ==
    SmartBuilt(iter)
    => LET F == Passing(iter.criteria)
           a == Anchor(iter)
           G == { x \in F : x.creation_date >= a.creation_date }
           n == Len(iter.result)
       IN  /\ n <= iter.criteria.smart_limit
           /\ n >= 1
           /\ \A i, j \in 1..n :
                  i < j => iter.result[i].creation_date
                               <= iter.result[j].creation_date
           /\ ResultRows(iter) \subseteq G
           /\ Cardinality(ResultRows(iter)) = n
           /\ \A x \in G \ ResultRows(iter) :
                  /\ n = iter.criteria.smart_limit
                  /\ x.creation_date >= iter.result[n].creation_date

\* An iterator in smart order whose anchor is not the oldest entry and whose
\* result is cut by the limit: an older entry and a later entry that pass
\* the filters are left out.
C19_Witness ==
    /\ SmartBuilt(iter)
    /\ Len(iter.result) = iter.criteria.smart_limit
    /\ \E x \in Passing(iter.criteria) :
           x.creation_date < Anchor(iter).creation_date
    /\ \E x \in Passing(iter.criteria) \ ResultRows(iter) :
           x.creation_date > Anchor(iter).creation_date

\* The number of files the calls of __next__ had returned before the last
\* call, all calls until then being calls of __next__ that returned a file.
Yielded(it) ==
    IF it.out.op = "next" /\ it.out.kind = "file"
    THEN Len(it.fwd) - 1 ELSE Len(it.fwd)

\* C20: in a smart traversal where all files resolve, a forward step returns
\* the next reference unless there is none or its creation date is more
\* than smart_time hours after the date of the reference before it; then it
\* signals exhaustion.
C20_SmartTimeCutoff ==
    (iter.live /\ IsSmart(iter) /\ iter.out.op = "next" /\ iter.out.pure)
    => LET q == Yielded(iter) + 1
       IN  IF q > Len(iter.result)
           THEN iter.out.kind = "stop"
           ELSE IF /\ q > 1
                   /\ iter.result[q].creation_date
                          - iter.result[q - 1].creation_date
                      > iter.criteria.smart_time * Hour
           THEN iter.out.kind = "stop"
           ELSE iter.out.kind = "file" /\ iter.out.index = q

\* C15: on an iterator whose files all resolve, after k forward steps
\* previous(n) with n < k returns the reference n places before the one
\* returned last and leaves the position at k - n; previous(n) with n >= k
\* signals exhaustion.
C15_PreviousNextSymmetry ==
    (/\ iter.live /\ iter.out.op = "previous" /\ iter.out.pure
     /\ \A i \in DOMAIN iter.result : Resolvable(iter.result[i]))
    => LET k == Len(iter.fwd)
           n == iter.out.n
       IN  IF n < k
           THEN /\ iter.out.kind = "file"
                /\ iter.out.index = iter.fwd[k - n]
                /\ iter.out.index = k - n
                /\ iter.position = k - n
           ELSE /\ iter.out.kind = "stop"
                /\ iter.position = k

\* Three calls of __next__ on an iterator over three files, then
\* previous(1), which returned the second file.
C15_Witness ==
    /\ iter.live /\ iter.out.op = "previous" /\ iter.out.pure
    /\ iter.out.n = 1
    /\ Len(iter.result) = 3
    /\ Len(iter.fwd) = 3
    /\ iter.out.kind = "file"
    /\ iter.out.index = 2

\* The references the forward steps returned still resolve and those they
\* skipped are still skipped.
AsWalked(it) ==
    \A i \in 1..it.fwd[Len(it.fwd)] :
        Resolve(it.result[i]) =
            IF \E j \in DOMAIN it.fwd : it.fwd[j] = i THEN "file" ELSE "skip"

\* C16: if the forward steps so far returned the files f1 .. fk, k >= 2,
\* previous(1) returns f(k-1), also when references that were skipped lie
\* between f(k-1) and fk.
C16_SkippedNotCounted ==
    (/\ iter.live /\ iter.out.op = "previous" /\ iter.out.pure
     /\ iter.out.n = 1
     /\ Len(iter.fwd) >= 2
     /\ AsWalked(iter))
    => /\ iter.out.kind = "file"
       /\ iter.out.index = iter.fwd[Len(iter.fwd) - 1]

\* The references after the position whose file still exists.
Remaining(it) ==
    { i \in (it.position + 1)..Len(it.result) : Resolvable(it.result[i]) }

\* C17: a forward step returns the first reference after the position whose
\* file still exists, whatever the backend of its repository, and signals
\* exhaustion if there is none; it never raises another exception and never
\* leaves the position beyond the end of the result.
C17_FailureTolerantStep ==
    (iter.live /\ ~IsSmart(iter))
    => LET s == Step(iter)
       IN  /\ s.out.kind /= "raise"
           /\ s.position <= Len(iter.result)
           /\ IF Remaining(iter) = {}
              THEN s.out.kind = "stop"
              ELSE /\ s.out.kind = "file"
                   /\ \A i \in Remaining(iter) : s.out.index <= i
                   /\ s.out.index \in Remaining(iter)

\* C21: in a smart forward traversal the creation dates of two files
\* returned one after the other are at most smart_time hours apart, also
\* when references between them were skipped.
C21_SmartGapBound ==
    (/\ iter.live /\ IsSmart(iter)
     /\ iter.out.op = "next" /\ iter.out.kind = "file" /\ iter.out.pure
     /\ Len(iter.fwd) >= 2)
    => LET k == Len(iter.fwd)
       IN  iter.result[iter.fwd[k]].creation_date
               - iter.result[iter.fwd[k - 1]].creation_date
           <= iter.criteria.smart_time * Hour

\* The constructor of the iterator has been called.
Constructed(it) == it.live \/ it.error /= None

\* The criteria hold a key that does not exist, an order, direction,
\* orientation or type outside the allowed values, an empty tag or a
\* most_recent that is not positive.
Malformed(c) ==
    \/ ~(c.keys \subseteq ValidKeys)
    \/ "order" \in c.keys /\ ~IsOrder(c.order)
    \/ "direction" \in c.keys /\ ~IsDirection(c.direction)
    \/ "orientation" \in c.keys /\ ~IsOrientation(c.orientation)
    \/ "types" \in c.keys /\ \E v \in c.types : ~IsType(v)
    \/ "tags" \in c.keys /\ <<>> \in c.tags
    \/ "most_recent" \in c.keys /\ c.most_recent <= 0

\* C22: the constructor called with malformed criteria raises ConfigError
\* before it runs a query, and there is no iterator.
C22_CompileTimeValidation ==
    (Constructed(iter) /\ Malformed(iter.criteria))
    => /\ ~iter.live
       /\ iter.error = "ConfigError"
       /\ ~iter.queried

\* C23: the constructor called with the smart order and without a positive
\* smart_limit and a positive smart_time raises ConfigError before it runs a
\* query, whether entries pass the filters or not.
C23_SmartCompanions ==
    (/\ Constructed(iter)
     /\ "order" \in iter.criteria.keys /\ iter.criteria.order = "smart"
     /\ \/ "smart_limit" \notin iter.criteria.keys
        \/ "smart_time" \notin iter.criteria.keys
        \/ iter.criteria.smart_limit <= 0
        \/ iter.criteria.smart_time <= 0)
    => /\ ~iter.live
       /\ iter.error = "ConfigError"
       /\ ~iter.queried

\* The slideshow holds an iterator compiled from its criteria against the
\* index as it is.
FreshlyCompiled(it) ==
    \E x \in Compile(files, it.criteria, 1) : x.result = it.result

\* The slideshow has answered a request for content.
Shown == iter' /= iter /\ iter'.out.op = "show"

\* A step signalled exhaustion during the request and a file is shown.
Restarted(it) == it.out.kind = "file" /\ it.out.restarts >= 1

\* The file shown is the first file of the iterator that still exists.
FirstShown(it) ==
    /\ FreshlyCompiled(it)
    /\ Resolvable(it.result[it.out.index])
    /\ \A i \in 1..(it.out.index - 1) : ~Resolvable(it.result[i])
    /\ it.position = it.out.index

AllStale(it) ==
    /\ \A i \in DOMAIN it.result : ~Resolvable(it.result[i])
    /\ \A x \in files : ~Resolvable(x)

WrittenKept(w) ==
    \A f \in extracted[w] \ failed[w] :
        \E x \in files :
            x.rep_uuid = repo[w] /\ x.file_uuid = f /\ x.verified

\* The pass of w has examined every file of the repository.
AllVisited(w) ==
    pc[w] = "enum"
    /\ \A f \in FileIds \ visited[w] : ~disk[repo[w]][f].present

\* C26: when a pass examines the next file, every entry it has written is
\* in the store; and entries are deleted only by the first statement of a
\* rebuild or when the enumeration of the deleting pass is exhausted.
C26_BuildOrdering ==
    [][/\ \A w \in Workers :
             visited'[w] /= visited[w] /\ pc[w] = "enum" => WrittenKept(w)
       /\ (\E x \in files : \A y \in files' : y.id /= x.id)
          => \E w \in Workers :
                 \/ pc[w] = "idle" /\ mode'[w] = "rebuild"
                 \/ AllVisited(w)]_vars

\* A pass has written an entry, the entry is in the store, and the next
\* file is about to be examined.
C26_Witness ==
    \E w \in Workers :
        /\ pc[w] = "enum"
        /\ extracted[w] \ failed[w] /= {}
        /\ WrittenKept(w)
        /\ ~AllVisited(w)

\* C27: once the enumeration has failed, build only raises to its caller:
\* the step that follows deletes no entry, and in update mode every entry
\* the index held when the pass started is still in the store.
C27_EnumerationFailureFatal ==
    [][\A w \in Workers :
           pc[w] = "raised_enum"
           => /\ pc'[w] \in {"raised_enum", "idle"}
              /\ \A x \in files : \E y \in files' : y.id = x.id
              /\ mode[w] = "update"
                 => \A x \in pre[w].files : \E y \in files : y.id = x.id]_vars

\* The enumeration of an update pass has failed while the store holds an
\* entry the sweep would delete.
C27_Witness ==
    \E w \in Workers :
        /\ pc[w] = "raised_enum"
        /\ mode[w] = "update"
        /\ \E x \in files : ~x.verified /\ x.id \notin marks[w]

\* The extracted fields of an entry, its tags by name.
Fields(x, tgs) ==
    [file_uuid |-> x.file_uuid, name |-> x.name, type |-> x.type,
     orientation |-> x.orientation, creation_date |-> x.creation_date,
     last_modified |-> x.last_modified,
     tags |-> { t.name : t \in { u \in tgs : u.id \in x.tags } }]

\* The entries of repository r, by their extracted fields.
RecordsOf(rows, tgs, r) == { Fields(x, tgs) : x \in { y \in rows : y.rep_uuid = r } }

\* What a pass on an index without entries of its repository ends with: the
\* entries of the files it has extracted and written.
Written(w) ==
    { [file_uuid |-> f, name |-> f, type |-> "image",
       orientation |-> "landscape",
       creation_date |-> disk[repo[w]][f].last_modified,
       last_modified |-> disk[repo[w]][f].last_modified,
       tags |-> Range(disk[repo[w]][f].tags)]
      : f \in extracted[w] \ failed[w] }

\* The pass of w ends in this step.
Ends(w) == pc[w] /= "idle" /\ pc'[w] = "idle"

\* The pass of w is an update on an index without entries of its repository.
UpdateOnEmpty(w) ==
    mode[w] = "update" /\ \A x \in pre[w].files : x.rep_uuid /= repo[w]

\* C28: a rebuild ends with the entries an update on an index without
\* entries of the repository ends with: those of the files the pass has
\* extracted and written, and no other.
C28_RebuildEqualsUpdateOnEmpty ==
    [][\A w \in Workers :
           Ends(w) /\ (mode[w] = "rebuild" \/ UpdateOnEmpty(w))
           => RecordsOf(files', tags', repo[w]) = Written(w)]_vars

\* A rebuild has ended and has left an entry it has not written.
C28_Counterexample ==
    \E w \in Workers :
        /\ pc[w] = "raised_sweep"
        /\ mode[w] = "rebuild"
        /\ RecordsOf(files, tags, repo[w]) /= Written(w)

\* As C28 for the updates alone.
C28_UpdateOnEmpty ==
    [][\A w \in Workers :
           Ends(w) /\ UpdateOnEmpty(w)
           => RecordsOf(files', tags', repo[w]) = Written(w)]_vars

\* As C28 for the rebuilds whose session is intact.
C28_RebuildIntact ==
    [][\A w \in Workers :
           Ends(w) /\ mode[w] = "rebuild" /\ pc[w] = "closing"
           => RecordsOf(files', tags', repo[w]) = Written(w)]_vars

\* The rotation a file declares, counter-clockwise as the index stores it.
Declared(c) ==
    IF c.type = "image"
    THEN (IF c.exif = 8 THEN 90 ELSE IF c.exif = 3 THEN 180
          ELSE IF c.exif = 6 THEN 270 ELSE 0)
    ELSE (IF c.rotate = "90" THEN 270 ELSE IF c.rotate = "180" THEN 180
          ELSE IF c.rotate = "270" THEN 90 ELSE 0)

\* Width and height of the content once it is rotated.
PostRotation(file) ==
    IF file.rotation \in {90, 270} THEN << file.height, file.width >>
    ELSE << file.width, file.height >>

\* The file object of w after an extraction.
Extracted(w) == pc[w] = "idle" /\ extracted[w] /= {}

\* C29: after an extraction the orientation is landscape exactly if the
\* rotated content is at least as wide as high, and the rotation is the one
\* the file declares.
C29_OrientationConsistency ==
    \A w \in Workers :
        Extracted(w)
        => /\ cur[w].file.orientation = "landscape"
              <=> PostRotation(cur[w].file)[1] >= PostRotation(cur[w].file)[2]
           /\ cur[w].file.rotation = Declared(cur[w])

\* A video higher than wide whose stream has no tags is stored as landscape.
C29_Counterexample ==
    \E w \in Workers :
        /\ Extracted(w)
        /\ cur[w].type = "video" /\ ~cur[w].tagged
        /\ cur[w].file.width < cur[w].file.height
        /\ cur[w].file.orientation = "landscape"

\* As C29 for the images alone.
C29_Images ==
    \A w \in Workers :
        Extracted(w) /\ cur[w].type = "image"
        => /\ cur[w].file.orientation = "landscape"
              <=> PostRotation(cur[w].file)[1] >= PostRotation(cur[w].file)[2]
           /\ cur[w].file.rotation = Declared(cur[w])

\* C30: the constructor of Index hands back an object only if the store
\* has been opened.
C30_OpenFailureFatal == store \in {"none", "open"}

\* build has been called on an Index object whose store was not opened.
C30_Counterexample == store = "unopened" /\ passes > 0

\* The file f of the repository of w has an entry among the rows.
HasRecord(rows, w, f) == RowsOf(rows, repo[w], f) /= {}

\* C31: when an update pass completes, every file the enumeration has
\* yielded and that had an entry when the pass started still has one.
C31_DeletionOnlyOnDisappearance ==
    [][\A w \in Workers :
           pc[w] = "enum" /\ pc'[w] = "closing" /\ mode[w] = "update"
           => \A f \in visited[w] :
                  HasRecord(pre[w].files, w, f) => HasRecord(files', w, f)]_vars

\* An update pass has completed its sweep; a file it has enumerated, and
\* whose extraction failed, had an entry before the pass and has none now.
C31_Counterexample ==
    \E w \in Workers :
        /\ pc[w] = "closing" /\ mode[w] = "update"
        /\ \E f \in visited[w] \cap failed[w] :
               HasRecord(pre[w].files, w, f) /\ ~HasRecord(files, w, f)

\* C32: a request for content makes at most MaxAttempts attempts, and the
\* loop returns the ErrorMessage widget only after MaxAttempts attempts of
\* which the last one retrieved no file.
C32_RetryLimit ==
    iter.out.op = "show"
    => /\ iter.out.n <= MaxAttempts
       /\ iter.out.kind = "error" /\ iter.out.n > 0
          => iter.out.n = MaxAttempts /\ iter.out.index = 0

\* The fifth attempt has retrieved a file and the ErrorMessage widget is
\* returned.
C32_Counterexample ==
    /\ iter.out.op = "show" /\ iter.out.kind = "error"
    /\ iter.out.n = MaxAttempts /\ iter.out.index /= 0

\* C33: a forward step that follows a forward step that signalled
\* exhaustion, on the same iterator, signals exhaustion as well.
C33_ExhaustionSticky ==
    [][(/\ iter.live /\ iter.out.op = "next" /\ iter.out.kind = "stop"
        /\ iter'.out.op = "next")
       => iter'.out.kind = "stop"]_vars

\* As C33 for the iterators that are not in smart order.
C33_OtherOrders ==
    [][(/\ iter.live /\ iter.out.op = "next" /\ iter.out.kind = "stop"
        /\ ~IsSmart(iter) /\ iter'.out.op = "next")
       => iter'.out.kind = "stop"]_vars

\* The step is a call of previous that signals exhaustion.
PreviousStops == iter' /= iter /\ iter'.out.op = "previous" /\ iter'.out.kind = "stop"

\* C34: the position stays between 0 and the length of the iterator, and a
\* call of previous that signals exhaustion leaves the position unchanged.
C34_CursorBounds ==
    [][/\ iter'.live
          => iter'.position >= 0 /\ iter'.position <= Length(iter')
       /\ PreviousStops => iter'.position = iter.position]_vars

\* As C34, the second part for the calls of previous(n) whose offset n
\* reaches the start of the iterator alone (the else branch, line 541).
C34_PositionInRange ==
    [][/\ iter'.live
          => iter'.position >= 0 /\ iter'.position <= Length(iter')
       /\ PreviousStops /\ iter.position <= iter'.out.n
          => iter'.position = iter.position]_vars

\* The keywords of the file the pass of w is about to commit are distinct.
DistinctKeywords(w) ==
    \A i, j \in DOMAIN cur[w].names :
        cur[w].names[i] = cur[w].names[j] => i = j

\* C35: the commit of a file whose keywords are distinct succeeds, whatever
\* the other pass does: the file has an entry, every keyword has a single
\* row, and the session of the pass stays usable, so that the pass completes.
C35_NoFileLostToTagRace ==
    [][\A w \in Workers :
           pc[w] = "commit" /\ pc'[w] /= "commit" /\ DistinctKeywords(w)
           => /\ ~poisoned'[w]
              /\ HasRecord(files', w, cur[w].file_uuid)
              /\ \A i \in DOMAIN cur[w].names :
                     Cardinality({ t \in tags' : t.name = cur[w].names[i] }) = 1]_vars

\* The step is a call of the slideshow setter.
Switches == app' /= app /\ app'.call /= None

\* C36: setting the slideshow to another existing slideshow stops the old
\* one and leaves the play state of the application as it was, the new
\* slideshow being in that state; setting an unknown name changes nothing.
C36_SwitchPreservesPlayState ==
    [][Switches
       => IF app'.call \in DOMAIN app.shows /\ app'.call /= app.root
          THEN /\ app'.root = app'.call
               /\ app'.shows[app.root] = "stopped"
               /\ app'.play_state = app.play_state
               /\ app'.shows[app'.root] = app'.play_state
          ELSE /\ app'.root = app.root
               /\ app'.play_state = app.play_state
               /\ app'.shows = app.shows]_vars

\* As C36 for the switches of an application that is not paused.
C36_NotPaused ==
    [][Switches /\ app.play_state /= "paused"
       => IF app'.call \in DOMAIN app.shows /\ app'.call /= app.root
          THEN /\ app'.root = app'.call
               /\ app'.shows[app.root] = "stopped"
               /\ app'.play_state = app.play_state
               /\ app'.shows[app'.root] = app'.play_state
          ELSE /\ app'.root = app.root
               /\ app'.play_state = app.play_state
               /\ app'.shows = app.shows]_vars

\* C37: a repository with an identifier of at most 36 characters is created
\* and registered; a longer identifier is rejected with UuidError and is
\* not in the registry.
C37_IdentifierLength ==
    registry.outcome /= "none"
    => IF registry.uuid <= 36
       THEN registry.outcome = "registered" /\ registry.uuid \in registry.uuids
       ELSE registry.outcome = "UuidError" /\ registry.uuid \notin registry.uuids

\* As C37 with a maximum of 35 characters.
C37_AtMost35 ==
    registry.outcome /= "none"
    => IF registry.uuid <= 35
       THEN registry.outcome = "registered" /\ registry.uuid \in registry.uuids
       ELSE registry.outcome = "UuidError" /\ registry.uuid \notin registry.uuids

====
